---------------------------- MODULE Spec2Model ----------------------------
(***************************************************************************)
(* A model of inline-c-rs: the token reconstructor of the assert_c! macro  *)
(* (macros/src/lib.rs), the build-and-execute pipeline (src/run.rs) and    *)
(* the assertion wrapper (src/assert.rs).                                  *)
(*                                                                         *)
(* Text is modelled at character level: a string is a sequence of          *)
(* one-character strings, so that the regular expression of the directive  *)
(* extractor and the pushes of the reconstructor act on characters.        *)
(***************************************************************************)
EXTENDS Naturals, Sequences, FiniteSets, TLC

VARIABLES
    pc,         \* position of the modelled run
    tokens,     \* the token stream handed to the macro
    rec,        \* what reconstruct did with it
    srclines,   \* the lines the program text was written from (history)
    program,    \* the &str handed to collect_environment_variables
    env,        \* the process-wide environment, name -> value
    collected,  \* what collect_environment_variables returned
    toolchain,  \* the compiler cc-rs selected: [msvc, clang]
    language,   \* Language::C or Language::Cxx
    input_path, \* the persisted source file
    output_path, \* the persisted output artifact
    command,    \* the arguments of the compiler command, in order
    fs,         \* the paths that exist in the temporary directory
    created,    \* the paths the invocation created
    deletions,  \* the paths removed, in order
    spawned,    \* the child processes spawned, in order
    wrapper,    \* the value run returned to its caller
    threads     \* the invocations running side by side in the process

vars == <<pc, tokens, rec, srclines, program, env, collected, toolchain,
          language, input_path, output_path, command, fs, created,
          deletions, spawned, wrapper, threads>>

\* what an invocation is given and never changes, the invocations beside
\* it included
inputs == <<tokens, srclines, env, toolchain, language, threads>>

\* the files, the processes and the result of run
effects == <<fs, created, deletions, spawned, wrapper>>

----------------------------------------------------------------------------
(* Characters and strings                                                  *)

NL == "\n"
CR == "\r"
SP == " "
QUOTE == "\""
COLON == ":"
HASH == "#"
SEMI == ";"

\* char::is_whitespace / the regex class \s, on the characters of the model
IsSpace(c) == c \in {SP, NL, CR, "\t"}

RECURSIVE Flatten(_)
Flatten(ss) == IF ss = <<>> THEN <<>> ELSE Head(ss) \o Flatten(Tail(ss))

starts_with(s, prefix) ==
    /\ Len(prefix) <= Len(s)
    /\ SubSeq(s, 1, Len(prefix)) = prefix

\* String::split_off(at): the tail from byte `at` on
split_off(s, at) == SubSeq(s, at + 1, Len(s))

\* str::trim: leading and trailing whitespace removed
RECURSIVE trim_start(_)
trim_start(s) ==
    IF s # <<>> /\ IsSpace(Head(s)) THEN trim_start(Tail(s)) ELSE s

RECURSIVE trim_end(_)
trim_end(s) ==
    IF s # <<>> /\ IsSpace(s[Len(s)])
    THEN trim_end(SubSeq(s, 1, Len(s) - 1))
    ELSE s

trim(s) == trim_end(trim_start(s))

\* HashMap::insert
MapInsert(m, k, v) ==
    [x \in DOMAIN m \cup {k} |-> IF x = k THEN v ELSE m[x]]

EmptyMap == [x \in {} |-> <<>>]

----------------------------------------------------------------------------
(* reconstruct (macros/src/lib.rs)                                         *)

\* proc_macro2::TokenTree
Punct(ch, spacing) == [k |-> "Punct", ch |-> ch, spacing |-> spacing]
Ident(s) == [k |-> "Ident", s |-> s]
Literal(s) == [k |-> "Literal", s |-> s]
Group(delimiter, stream) ==
    [k |-> "Group", delimiter |-> delimiter, stream |-> stream]

INCLUDE_IDENT == <<"i","n","c","l","u","d","e">>
DEFINE_IDENT == <<"d","e","f","i","n","e">>

\* the build configuration: cfg(nightly) is off on a stable toolchain,
\* the configuration modelled here
nightly == FALSE

NoToken == [k |-> "None"]

NotExpanded == [st |-> "none"]
Returned(out) == [st |-> "ok", out |-> out]
\* panic!: the message and the value its {:?} placeholder prints
Panicked(message, named) ==
    [st |-> "panic", message |-> message, named |-> named]

\* A plausible slip: the statement end pushed without its newline.
PushSemicolon_no_newline(out) == Append(out, SEMI)

\* the arm for ';': the character, then a newline
PushSemicolon(out) == out \o <<SEMI, NL>>

\* A plausible slip: an identifier of the include path pushed as the main
\* loop pushes identifiers, with a space after it.
PushIncludeIdent_spaced(out, ident) == out \o ident.s \o <<SP>>

\* an identifier between `<` and `>`
PushIncludeIdent(out, ident) == out \o ident.s

\* the arm for any other punctuation: the character, and a space when the
\* token is not glued to the next one
PushPunct(out, token) ==
    IF token.spacing = "Alone"
    THEN out \o <<token.ch, SP>>
    ELSE Append(out, token.ch)

\* the arms of group.delimiter()
PushGroup(out, delimiter, group_output) ==
    IF delimiter = "Parenthesis" THEN out \o <<"(">> \o group_output \o <<")">>
    ELSE IF delimiter = "Brace"
    THEN out \o <<"{", NL>> \o group_output \o <<NL, "}">>
    ELSE IF delimiter = "Bracket" THEN out \o <<"[">> \o group_output \o <<"]">>
    ELSE out \o group_output

RECURSIVE reconstruct(_)
RECURSIVE MainLoop(_, _, _)
RECURSIVE IncludeLoop(_, _, _)

\* the inner loop, after `include <` was pushed: tokens up to the first `>`
IncludeLoop(ts, j, out) ==
    IF j > Len(ts)
    THEN Panicked("Invalid token in #include value", NoToken)
    ELSE IF ts[j].k = "Punct"
    THEN IF ts[j].ch = ">"
         THEN MainLoop(ts, j + 1, out \o <<">", NL>>)
         ELSE IncludeLoop(ts, j + 1, Append(out, ts[j].ch))
    ELSE IF ts[j].k = "Ident"
    THEN IncludeLoop(ts, j + 1, PushIncludeIdent(out, ts[j]))
    ELSE Panicked("Invalid token in #include value", ts[j])

\* the arm for '#', the newline and the `#` already pushed: ts[i] is the
\* `#` token and ts[i + 1] the token the iterator peeks at
HashArm(ts, i, out) ==
    IF i + 1 <= Len(ts) /\ ts[i + 1] = Ident(INCLUDE_IDENT)
    THEN IF i + 2 > Len(ts)
         THEN Panicked("#include must be followed by < or a quote", NoToken)
         ELSE IF ts[i + 2].k = "Punct"
         THEN IF ts[i + 2].ch # "<"
              \* the message prints `token`, the `#` of the outer match
              THEN Panicked("Invalid opening token after #include", ts[i])
              ELSE IncludeLoop(ts, i + 3,
                               out \o INCLUDE_IDENT \o <<SP, "<">>)
         ELSE IF ts[i + 2].k = "Literal"
         THEN MainLoop(ts, i + 3,
                       out \o INCLUDE_IDENT \o <<SP>> \o ts[i + 2].s \o <<NL>>)
         ELSE Panicked("Invalid opening token after #include", ts[i + 2])
    ELSE IF i + 1 <= Len(ts) /\ ts[i + 1] = Ident(DEFINE_IDENT) /\ ~nightly
    THEN Panicked("#define in C is only supported with Rust nightly",
                  NoToken)
    ELSE MainLoop(ts, i + 1, out)

\* the outer loop from token i on, `out` being the output so far
MainLoop(ts, i, out) ==
    IF i > Len(ts) THEN Returned(out)
    ELSE IF ts[i].k = "Punct"
    THEN IF ts[i].ch = HASH THEN HashArm(ts, i, out \o <<NL, HASH>>)
         ELSE IF ts[i].ch = SEMI THEN MainLoop(ts, i + 1, PushSemicolon(out))
         ELSE MainLoop(ts, i + 1, PushPunct(out, ts[i]))
    ELSE IF ts[i].k = "Ident"
    THEN MainLoop(ts, i + 1, out \o ts[i].s \o <<SP>>)
    ELSE IF ts[i].k = "Group"
    THEN LET group == reconstruct(ts[i].stream)
         IN  IF group.st = "ok"
             THEN MainLoop(ts, i + 1,
                           PushGroup(out, ts[i].delimiter, group.out))
             ELSE group    \* the panic unwinds
    ELSE MainLoop(ts, i + 1, out \o ts[i].s)

reconstruct(input) == MainLoop(input, 1, <<>>)

\* assert_c!: the macro expands to a call of run on the reconstructed text,
\* or fails to expand when reconstruct panics
Expand ==
    /\ pc = "macro"
    /\ rec' = reconstruct(tokens)
    /\ IF rec'.st = "ok"
       THEN pc' = "start" /\ program' = rec'.out
       ELSE pc' = "macro_panic" /\ program' = program
    /\ UNCHANGED <<inputs, collected, input_path, output_path, command,
                   effects>>

----------------------------------------------------------------------------
(* collect_environment_variables (src/run.rs)                              *)

ENV_VAR_PREFIX == <<"I","N","L","I","N","E","_","C","_","R","S","_">>

\* the literal head of REGEX: `#inline_c_rs `
REGEX_HEAD == <<"#","i","n","l","i","n","e","_","c","_","r","s"," ">>

\* the first position q >= p at which the class stops matching (Len(s)+1
\* when it matches to the end): the end of a greedy run of one class
RECURSIVE RunEndNot(_, _, _)
RunEndNot(s, p, stop) ==
    IF p > Len(s) \/ s[p] = stop THEN p ELSE RunEndNot(s, p + 1, stop)

RECURSIVE RunEndSpace(_, _)
RunEndSpace(s, p) ==
    IF p > Len(s) \/ ~IsSpace(s[p]) THEN p ELSE RunEndSpace(s, p + 1)

\* REGEX anchored at position p of s:
\*   #inline_c_rs (?P<variable_name>[^:]+):\s*"(?P<variable_value>[^"]+)"\r?\n
\* Every repetition is a greedy run of a class that excludes the character
\* that must follow it, so the match at p, if any, is unique.
RegexAt(s, p) ==
    LET a == p + Len(REGEX_HEAD)              \* start of variable_name
        b == RunEndNot(s, a, COLON)           \* the `:`
        c == RunEndSpace(s, b + 1)            \* the opening `"`
        d == RunEndNot(s, c + 1, QUOTE)       \* the closing `"`
        e == IF d + 1 <= Len(s) /\ s[d + 1] = CR THEN d + 2 ELSE d + 1
        ok == /\ a - 1 <= Len(s)
              /\ SubSeq(s, p, a - 1) = REGEX_HEAD
              /\ b > a /\ b <= Len(s)
              /\ c <= Len(s) /\ s[c] = QUOTE
              /\ d > c + 1 /\ d <= Len(s)
              /\ e <= Len(s) /\ s[e] = NL
    IN  IF ok
        THEN [ok |-> TRUE, start |-> p, end |-> e,
              variable_name |-> SubSeq(s, a, b - 1),
              variable_value |-> SubSeq(s, c + 1, d - 1)]
        ELSE [ok |-> FALSE]

\* Regex::captures_iter: the successive non-overlapping leftmost matches
RECURSIVE captures_iter(_, _)
captures_iter(s, p) ==
    IF p > Len(s) THEN <<>>
    ELSE LET m == RegexAt(s, p)
         IN  IF m.ok THEN <<m>> \o captures_iter(s, m.end + 1)
             ELSE captures_iter(s, p + 1)

\* Regex::replace_all(program, ""): the text outside the matches
RECURSIVE replace_all(_, _)
replace_all(s, p) ==
    IF p > Len(s) THEN <<>>
    ELSE LET m == RegexAt(s, p)
         IN  IF m.ok THEN replace_all(s, m.end + 1)
             ELSE <<s[p]>> \o replace_all(s, p + 1)

\* the loop over env::vars(): every INLINE_C_RS_<name> becomes <name>
MetaVariables(e) ==
    [n \in {split_off(k, Len(ENV_VAR_PREFIX)) :
               k \in {k \in DOMAIN e : starts_with(k, ENV_VAR_PREFIX)}}
        |-> e[ENV_VAR_PREFIX \o n]]

\* the loop over the captures, inserting in match order
RECURSIVE InsertCaptures(_, _)
InsertCaptures(m, caps) ==
    IF caps = <<>> THEN m
    ELSE InsertCaptures(
            MapInsert(m, trim(Head(caps).variable_name),
                      Head(caps).variable_value),
            Tail(caps))

\* A plausible slip: the meta variables inserted after the directives.
collect_environment_variables_meta_last(prog, e) ==
    LET dirs == InsertCaptures(EmptyMap, captures_iter(prog, 1))
        meta == MetaVariables(e)
    IN  [program |-> replace_all(prog, 1),
         variables |-> [n \in DOMAIN dirs \cup DOMAIN meta |->
                           IF n \in DOMAIN meta THEN meta[n] ELSE dirs[n]]]

collect_environment_variables(prog, e) ==
    [program |-> replace_all(prog, 1),
     variables |-> InsertCaptures(MetaVariables(e), captures_iter(prog, 1))]

----------------------------------------------------------------------------
(* Inputs of the extractor: program texts written line by line             *)

MaxLines == 3

NameA == <<"A">>
NameB == <<"B">>

\* a directive line: #inline_c_rs <name><gap>:<sep>"<value>"<term>
DirLine(name, gap, sep, value, term) ==
    [kind |-> "directive", name |-> name, gap |-> gap, sep |-> sep,
     value |-> value, term |-> term]

CodeLine(text) == [kind |-> "code", text |-> text]

LineText(l) ==
    IF l.kind = "directive"
    THEN REGEX_HEAD \o l.name \o l.gap \o <<COLON>> \o l.sep
            \o <<QUOTE>> \o l.value \o <<QUOTE>> \o l.term
    ELSE l.text

LineSet ==
    { DirLine(NameA, <<SP>>, <<SP>>, <<"x">>, <<NL>>),
      DirLine(NameA, <<>>, <<SP>>, <<"y">>, <<NL>>),
      DirLine(NameB, <<>>, <<>>, <<"x", SP, "y">>, <<CR, NL>>),
      DirLine(NameA, <<>>, <<SP>>, <<>>, <<NL>>),
      DirLine(NameB, <<>>, <<SP>>, <<"y">>, <<>>),
      CodeLine(<<"i", SP, "=", SP, "1", SEMI, NL>>) }

RECURSIVE SeqsUpTo(_, _)
SeqsUpTo(S, n) ==
    IF n = 0 THEN {<<>>}
    ELSE LET shorter == SeqsUpTo(S, n - 1)
         IN  shorter \cup {Append(q, x) : q \in shorter, x \in S}

\* a line without a line terminator can only be the last one
LineSeqs ==
    {ls \in SeqsUpTo(LineSet, MaxLines) :
        \A i \in 1..Len(ls) :
            (ls[i].kind = "directive" /\ ls[i].term = <<>>) => i = Len(ls)}

ProgramText(ls) == Flatten([i \in 1..Len(ls) |-> LineText(ls[i])])

MetaA == ENV_VAR_PREFIX \o NameA
MetaB == ENV_VAR_PREFIX \o NameB

\* process environments: the two meta variables and an unprefixed A,
\* each set or not
EnvSet ==
    { [k \in D |-> IF k = NameA THEN <<"w">> ELSE <<"z">>] :
        D \in SUBSET {MetaA, MetaB, NameA} }

NoResult == [program |-> <<>>, variables |-> EmptyMap]

NoToolchain == [msvc |-> FALSE, clang |-> FALSE]

NoPath == <<>>

NoWrapper == [st |-> "none"]

\* no other invocation in the process
NoThreads == <<>>

\* before run touched anything
NoEffects ==
    /\ language = "C"
    /\ fs = {}
    /\ created = {}
    /\ deletions = <<>>
    /\ spawned = <<>>
    /\ wrapper = NoWrapper
    /\ threads = NoThreads

InitEnv ==
    /\ pc = "start"
    /\ tokens = <<>>
    /\ rec = NotExpanded
    /\ srclines \in LineSeqs
    /\ program = ProgramText(srclines)
    /\ env \in EnvSet
    /\ collected = NoResult
    /\ toolchain = NoToolchain
    /\ input_path = NoPath
    /\ output_path = NoPath
    /\ command = <<>>
    /\ NoEffects

CollectEnvironmentVariables ==
    /\ pc = "start"
    /\ collected' = collect_environment_variables(program, env)
    /\ pc' = "collected"
    /\ UNCHANGED <<inputs, rec, program, input_path, output_path, command,
                   effects>>

NextEnv == CollectEnvironmentVariables

SpecEnv == InitEnv /\ [][NextEnv]_vars

----------------------------------------------------------------------------
(* Claims about the extractor                                              *)

\* the directive lines the extractor's pattern describes: a non-empty
\* value and a line terminator
Recognised(l) ==
    l.kind = "directive" /\ l.value # <<>> /\ l.term # <<>>

RECURSIVE DirectiveValues(_, _)
DirectiveValues(ls, n) ==
    IF ls = <<>> THEN <<>>
    ELSE (IF Recognised(Head(ls)) /\ Head(ls).name = n
          THEN <<Head(ls).value>> ELSE <<>>)
         \o DirectiveValues(Tail(ls), n)

RECURSIVE WithoutDirectives(_)
WithoutDirectives(ls) ==
    IF ls = <<>> THEN <<>>
    ELSE (IF Head(ls).kind = "directive" THEN <<>> ELSE <<Head(ls)>>)
         \o WithoutDirectives(Tail(ls))

\* C3: for all source text with zero or more lines of the shape
\* #inline_c_rs <name>: "<value>" (an empty value, a last line without a
\* line terminator and a directive after other text included), the
\* extractor removes exactly those lines, with their terminators, and the
\* returned text is otherwise unchanged.
C3_RemovesExactlyDirectiveLines ==
    pc = "collected" =>
        collected.program = ProgramText(WithoutDirectives(srclines))

----------------------------------------------------------------------------
(* The compiler command (src/run.rs)                                       *)

\* A path is <<stem>> or <<stem, extension>>, the extension with its dot.
\* PathBuf::set_extension replaces the extension or adds one.
set_extension(path, ext) == <<path[1], ext>>

CFLAGS == <<"C","F","L","A","G","S">>
CPPFLAGS == <<"C","P","P","F","L","A","G","S">>
CXXFLAGS == <<"C","X","X","F","L","A","G","S">>
LDFLAGS == <<"L","D","F","L","A","G","S">>

\* char::is_ascii_whitespace
IsAsciiSpace(c) == c \in {SP, "\t", NL, "\f", CR}

\* str::split_ascii_whitespace: the non-empty pieces between whitespace
RECURSIVE split_ascii_whitespace(_, _)
split_ascii_whitespace(s, word) ==
    IF s = <<>>
    THEN IF word = <<>> THEN <<>> ELSE <<word>>
    ELSE IF IsAsciiSpace(Head(s))
    THEN (IF word = <<>> THEN <<>> ELSE <<word>>)
         \o split_ascii_whitespace(Tail(s), <<>>)
    ELSE split_ascii_whitespace(Tail(s), Append(word, Head(s)))

\* env::var(name)
env_var(e, name) ==
    IF name \in DOMAIN e THEN [ok |-> TRUE, v |-> e[name]]
    ELSE [ok |-> FALSE]

\* the closure get_env_flags: Option::ok_or_else makes the result of
\* env::var the Err payload, and Result::unwrap_or_default replaces any
\* Err by the empty string
get_env_flags(variables, e, env_name) ==
    LET looked == IF env_name \in DOMAIN variables
                  THEN [ok |-> TRUE, v |-> variables[env_name]]
                  ELSE [ok |-> FALSE, err |-> env_var(e, env_name)]
        value == IF looked.ok THEN looked.v ELSE <<>>
    IN  split_ascii_whitespace(value, <<>>)

\* format!("-Wl,{}", linker_argument)
LinkerArgument(arg) == <<"-", "W", "l", ",">> \o arg

\* A plausible slip: the C++ flags added before the preprocessor flags.
command_add_compiler_flags_cxx_first(cmd, variables, e) ==
    LET ld == get_env_flags(variables, e, LDFLAGS)
    IN  cmd \o get_env_flags(variables, e, CFLAGS)
            \o get_env_flags(variables, e, CXXFLAGS)
            \o get_env_flags(variables, e, CPPFLAGS)
            \o [i \in 1..Len(ld) |-> LinkerArgument(ld[i])]

command_add_compiler_flags(cmd, variables, e) ==
    LET ld == get_env_flags(variables, e, LDFLAGS)
    IN  cmd \o get_env_flags(variables, e, CFLAGS)
            \o get_env_flags(variables, e, CPPFLAGS)
            \o get_env_flags(variables, e, CXXFLAGS)
            \o [i \in 1..Len(ld) |-> LinkerArgument(ld[i])]

command_add_output_file(cmd, out, msvc, clang) ==
    IF msvc /\ ~clang
    THEN cmd \o << <<"-", "F", "o">> \o set_extension(out, ".obj"),
                   <<"-", "F", "e">> \o out >>
    ELSE cmd \o << <<"-", "o">>, out >>

\* the arguments cc-rs computed for the compiler (compiler.args(), and the
\* ones compiler.to_command() starts with): one opaque argument
CompilerArgs == << <<"cc-args">> >>

\* run, lines 73-75 and 80-84: the command before the flags
StartCommand ==
    /\ pc = "command"
    /\ command' = IF toolchain.msvc
                  THEN CompilerArgs
                  ELSE <<input_path>> \o CompilerArgs
    /\ pc' = "flags"
    /\ UNCHANGED <<inputs, rec, program, collected, input_path,
                   output_path, effects>>

\* run, lines 76 and 85
AddCompilerFlags ==
    /\ pc = "flags"
    /\ command' = command_add_compiler_flags(command, collected.variables, env)
    /\ pc' = "output_file"
    /\ UNCHANGED <<inputs, rec, program, collected, input_path,
                   output_path, effects>>

\* run, lines 77-78 and 86
AddOutputFile ==
    /\ pc = "output_file"
    /\ command' =
          LET c == command_add_output_file(command, output_path,
                                           toolchain.msvc, toolchain.clang)
          IN  IF toolchain.msvc THEN Append(c, input_path) ELSE c
    /\ pc' = "built"
    /\ UNCHANGED <<inputs, rec, program, collected, input_path,
                   output_path, effects>>

----------------------------------------------------------------------------
(* run: the temporary files and the compiler process (src/run.rs)          *)

\* Language::to_string, with the dot format! puts before it
Suffix(lang) == IF lang = "C" THEN ".c" ELSE ".cpp"

\* the names tempfile can draw: the prefix and random characters
TempNames == {"inline-c-rs-1", "inline-c-rs-2"}

Failed == [st |-> "err"]

\* run, lines 28-39: the source file is created under a fresh name,
\* written and persisted. tempfile() can fail before it creates anything;
\* when write_all or keep fails, the NamedTempFile is dropped and removes
\* its file.
CreateSource ==
    /\ pc = "collected"
    /\ \E name \in TempNames, outcome \in {"ok", "create_err", "write_err"} :
          LET path == <<name, Suffix(language)>>
          IN  /\ path \notin fs
              /\ IF outcome = "ok"
                 THEN /\ fs' = fs \cup {path}
                      /\ created' = created \cup {path}
                      /\ input_path' = path
                      /\ pc' = "source"
                      /\ UNCHANGED <<deletions, wrapper>>
                 ELSE /\ IF outcome = "write_err"
                         THEN /\ created' = created \cup {path}
                              /\ deletions' = Append(deletions, path)
                         ELSE UNCHANGED <<created, deletions>>
                      /\ wrapper' = Failed
                      /\ pc' = "returned_err"
                      /\ UNCHANGED <<fs, input_path>>
    /\ UNCHANGED <<inputs, rec, program, collected, output_path, command,
                   spawned>>

\* run, lines 40-47: the output file, with the suffix .exe on msvc
CreateOutput ==
    /\ pc = "source"
    /\ \E name \in TempNames, outcome \in {"ok", "create_err", "keep_err"} :
          LET path == IF toolchain.msvc THEN <<name, ".exe">> ELSE <<name>>
          IN  /\ path \notin fs
              /\ IF outcome = "ok"
                 THEN /\ fs' = fs \cup {path}
                      /\ created' = created \cup {path}
                      /\ output_path' = path
                      /\ pc' = "output"
                      /\ UNCHANGED <<deletions, wrapper>>
                 ELSE /\ IF outcome = "keep_err"
                         THEN /\ created' = created \cup {path}
                              /\ deletions' = Append(deletions, path)
                         ELSE UNCHANGED <<created, deletions>>
                      /\ wrapper' = Failed
                      /\ pc' = "returned_err"
                      /\ UNCHANGED <<fs, output_path>>
    /\ UNCHANGED <<inputs, rec, program, collected, input_path, command,
                   spawned>>

\* run, lines 49-70: build.try_get_compiler()?
GetCompiler ==
    /\ pc = "output"
    /\ \E found \in BOOLEAN :
          IF found
          THEN pc' = "command" /\ wrapper' = wrapper
          ELSE pc' = "returned_err" /\ wrapper' = Failed
    /\ UNCHANGED <<inputs, rec, program, collected, input_path, output_path,
                   command, fs, created, deletions, spawned>>

\* the files a compiler run with these arguments writes: the path after
\* -Fo, the path after -Fe and the argument after -o
OutputsOf(cmd) ==
    {SubSeq(cmd[i], 4, Len(cmd[i])) :
        i \in {i \in 1..Len(cmd) :
                  \/ starts_with(cmd[i], <<"-", "F", "o">>)
                  \/ starts_with(cmd[i], <<"-", "F", "e">>)}}
    \cup {cmd[i + 1] : i \in {i \in 1..(Len(cmd) - 1) : cmd[i] = <<"-", "o">>}}

\* run, lines 91-96
files_to_remove(input, output, msvc) ==
    <<input, output>>
       \o (IF msvc THEN <<set_extension(output, ".obj")>> ELSE <<>>)

FilesToRemove == files_to_remove(input_path, output_path, toolchain.msvc)

\* Command::envs: the pairs are added to the variables set on the command,
\* a later value replacing an earlier one
envs(command_envs, variables) ==
    [k \in DOMAIN command_envs \cup DOMAIN variables |->
        IF k \in DOMAIN variables THEN variables[k] ELSE command_envs[k]]

\* the variables compiler.to_command() sets on the command it returns (the
\* ones cc-rs found for the tool); Command::new sets none
ToolEnv == (<<"L", "I", "B">> :> <<"s", "d", "k">>)

\* compiler.path()
CompilerPath == <<"cc">>

\* run, lines 73-89: the variables set on the compiler command
CompilerEnvs(msvc, variables) ==
    IF msvc
    THEN envs(envs(ToolEnv, variables), variables)
    ELSE envs(EmptyMap, variables)

\* run, lines 73-89: the command run spawns at line 98
CompilerCommand ==
    [program |-> CompilerPath, args |-> command,
     envs |-> CompilerEnvs(toolchain.msvc, collected.variables)]

\* A plausible slip: the artifact's command left with no variables.
ArtifactCommand_without_envs(out, variables) ==
    [program |-> out, args |-> <<>>, envs |-> EmptyMap]

\* run, lines 104-105: the command of the artifact
ArtifactCommand(out, variables) ==
    [program |-> out, args |-> <<>>, envs |-> envs(EmptyMap, variables)]

\* the environment a child spawned from a Command sees: the environment of
\* the process, with the variables set on the command on top
ChildEnvironment(e, command_envs) == envs(e, command_envs)

\* ExitStatus: code() is Some(c), written <<c>>, or None, written <<>>,
\* when a signal ended the process
ExitCodes == {0, 1, 3}

NoCode == <<>>

Statuses == {[code |-> <<c>>] : c \in ExitCodes} \cup {[code |-> NoCode]}

\* ExitStatus::success
status_success(status) == status.code = <<0>>

\* one child process, as command.output() spawned it and saw it end
Spawned(cmd, e, status) ==
    [program |-> cmd.program, args |-> cmd.args,
     env |-> ChildEnvironment(e, cmd.envs), status |-> status]

NoOutput == [st |-> "none"]

\* Assert::new(command, Some(files_to_remove))
AssertNew(cmd, files) ==
    [st |-> "ok", command |-> cmd, files_to_remove |-> files,
     output |-> NoOutput, checks |-> <<>>]

\* A plausible slip: the artifact wrapped whatever the compiler said.
ReturnedCommand_always_artifact(status) ==
    ArtifactCommand(output_path, collected.variables)

\* run, lines 100-107: the command the returned wrapper holds
ReturnedCommand(status) ==
    IF ~status_success(status)
    THEN CompilerCommand
    ELSE ArtifactCommand(output_path, collected.variables)

\* run, lines 91-107: the compiler runs. command.output() can fail to
\* spawn it; a compiler that exits with success has written its output
\* files; one that fails has written any of them, or none.
Compile ==
    /\ pc = "built"
    /\ \E spawn_ok \in BOOLEAN, status \in Statuses :
          IF ~spawn_ok
          THEN /\ status = [code |-> NoCode]
               /\ wrapper' = Failed
               /\ pc' = "returned_err"
               /\ UNCHANGED <<fs, created, spawned>>
          ELSE /\ spawned' = Append(spawned,
                                    Spawned(CompilerCommand, env, status))
               /\ \E written \in SUBSET OutputsOf(command) :
                     /\ status_success(status) => written = OutputsOf(command)
                     /\ fs' = fs \cup written
                     /\ created' = created \cup written
               /\ wrapper' = AssertNew(ReturnedCommand(status), FilesToRemove)
               /\ pc' = "returned"
    /\ UNCHANGED <<inputs, rec, program, collected, input_path, output_path,
                   command, deletions>>

----------------------------------------------------------------------------
(* The wrapper run returns (src/assert.rs)                                 *)

\* the Executor: the command the wrapper holds is run as a child process
\* with the environment of the process under the variables set on the
\* command, and its exit status is captured. A compiler command run again
\* writes its output files as the first run could.
Execute ==
    /\ pc = "returned"
    /\ \E status \in Statuses :
          /\ spawned' = Append(spawned, Spawned(wrapper.command, env, status))
          /\ \E written \in SUBSET (IF wrapper.command.args = <<>> THEN {}
                                    ELSE OutputsOf(wrapper.command.args)) :
                /\ (status_success(status) /\ wrapper.command.args # <<>>)
                      => written = OutputsOf(wrapper.command.args)
                /\ fs' = fs \cup written
                /\ created' = created \cup written
          /\ wrapper' = [wrapper EXCEPT
                            !.output = [st |-> "some", status |-> status]]
    /\ pc' = "executed"
    /\ UNCHANGED <<inputs, rec, program, collected, input_path, output_path,
                   command, deletions>>

\* Option::unwrap_or
unwrap_or(option, default) == IF option = <<>> THEN default ELSE option[1]

\* what an assertion method does: it returns the wrapper, or it panics
\* with a message; shown lists the exit codes the message prints
Passed == [passed |-> TRUE, text |-> "", shown |-> <<>>]

Panic(text, shown) == [passed |-> FALSE, text |-> text, shown |-> shown]

\* Assert::success
success(output) ==
    IF ~status_success(output.status)
    THEN Panic("Unexpected failure.", <<unwrap_or(output.status.code, 1)>>)
    ELSE Passed

\* Assert::failure
failure(output) ==
    IF status_success(output.status)
    THEN Panic("Unexpected success", <<>>)
    ELSE Passed

\* Assert::interrupted
interrupted(output) ==
    IF output.status.code # <<>>
    THEN Panic("Unexpected completion", <<>>)
    ELSE Passed

\* A plausible slip: the placeholder of success() used for a missing code.
code_with_placeholder(output, expected_code) ==
    LET received_code == unwrap_or(output.status.code, 1)
    IN  IF expected_code # received_code
        THEN Panic("Codes mismatch", <<expected_code, received_code>>)
        ELSE Passed

\* Assert::code
code(output, expected_code) ==
    IF output.status.code = <<>>
    THEN Panic("Command interrupted, not code available.", <<>>)
    ELSE LET received_code == output.status.code[1]
         IN  IF expected_code # received_code
             THEN Panic("Codes mismatch", <<expected_code, received_code>>)
             ELSE Passed

\* the calls a test makes on the wrapper
MaxChecks == 2

ExpectedCodes == {0, 1, 3}

Calls ==
    {[method |-> m, expected_code |-> 0] :
        m \in {"success", "failure", "interrupted"}}
    \cup {[method |-> "code", expected_code |-> n] : n \in ExpectedCodes}

Call(c, output) ==
    IF c.method = "success" THEN success(output)
    ELSE IF c.method = "failure" THEN failure(output)
    ELSE IF c.method = "interrupted" THEN interrupted(output)
    ELSE code(output, c.expected_code)

Checked(c, result) == [call |-> c, result |-> result]

\* an assertion method returns the wrapper: the next call is chained
AssertionPasses ==
    /\ pc = "executed"
    /\ Len(wrapper.checks) < MaxChecks
    /\ \E c \in Calls :
          LET result == Call(c, wrapper.output)
          IN  /\ result.passed
              /\ wrapper' = [wrapper EXCEPT
                                !.checks = Append(@, Checked(c, result))]
    /\ UNCHANGED <<pc, inputs, rec, program, collected, input_path,
                   output_path, command, fs, created, deletions, spawned>>

\* an assertion method panics: the wrapper it took by value is dropped
\* while the panic unwinds
AssertionPanics ==
    /\ pc = "executed"
    /\ \E c \in Calls :
          LET result == Call(c, wrapper.output)
          IN  /\ ~result.passed
              /\ wrapper' = [wrapper EXCEPT
                                !.checks = Append(@, Checked(c, result))]
    /\ pc' = "unwinding"
    /\ UNCHANGED <<inputs, rec, program, collected, input_path, output_path,
                   command, fs, created, deletions, spawned>>

\* run hands Assert::new the list of the recorded paths (run.rs, lines 101
\* and 107); the removal of assert.rs, lines 10-12, is applied to each path
\* of the list in turn: fs::remove_file, and expect panics at the first
\* path that cannot be removed
RECURSIVE RemoveFiles(_, _, _)
RemoveFiles(files, files_now, removed) ==
    IF files = <<>>
    THEN [panicked |-> FALSE, fs |-> files_now, deletions |-> removed]
    ELSE IF Head(files) \in files_now
    THEN RemoveFiles(Tail(files), files_now \ {Head(files)},
                     Append(removed, Head(files)))
    ELSE [panicked |-> TRUE, fs |-> files_now, deletions |-> removed]

\* Drop for the wrapper: at the end of the caller's statement, or while an
\* assertion's panic unwinds
Drop ==
    /\ pc \in {"returned", "executed", "unwinding"}
    /\ LET done == RemoveFiles(wrapper.files_to_remove, fs, deletions)
       IN  /\ fs' = done.fs
           /\ deletions' = done.deletions
           /\ pc' = IF done.panicked THEN "drop_panic" ELSE "dropped"
    /\ UNCHANGED <<inputs, rec, program, collected, input_path, output_path,
                   command, created, spawned, wrapper>>

----------------------------------------------------------------------------
(* Inputs of the flag resolver                                             *)

Toolchains ==
    { [msvc |-> FALSE, clang |-> FALSE],     \* gcc
      [msvc |-> FALSE, clang |-> TRUE],      \* clang
      [msvc |-> TRUE, clang |-> FALSE],      \* cl
      [msvc |-> TRUE, clang |-> TRUE] }      \* clang for an msvc target

FlagValues(name) ==
    IF name = CFLAGS
    THEN { <<"-","D","A",SP,"-","D","B">>, <<SP,"-","D","A",NL>> }
    ELSE IF name = CPPFLAGS THEN { <<"-","I",".">> }
    ELSE IF name = CXXFLAGS THEN { <<"-","x">> }
    ELSE { <<"-","l","f","o","o">>, <<"-","l","a","\t",SP,"-","l","b">> }

FlagNames == {CFLAGS, CPPFLAGS, CXXFLAGS, LDFLAGS}

\* merged mappings: each flag name absent or with one of its values
FlagMaps ==
    UNION { [D -> UNION {FlagValues(n) : n \in D}] : D \in SUBSET FlagNames }

FlagMapSet == {m \in FlagMaps : \A n \in DOMAIN m : m[n] \in FlagValues(n)}

\* process environments: CFLAGS and LDFLAGS set or not
FlagEnvSet ==
    { [k \in D |-> IF k = CFLAGS THEN <<"-","D","E">> ELSE <<"-","l","e">>] :
        D \in SUBSET {CFLAGS, LDFLAGS} }

SourcePath == <<"inline-c-rs-1", ".c">>

ArtifactPath(msvc) ==
    IF msvc THEN <<"inline-c-rs-2", ".exe">> ELSE <<"inline-c-rs-2">>

InitFlags ==
    /\ pc = "command"
    /\ tokens = <<>>
    /\ rec = NotExpanded
    /\ srclines = <<>>
    /\ program = <<>>
    /\ env \in FlagEnvSet
    /\ \E m \in FlagMapSet : collected = [program |-> <<>>, variables |-> m]
    /\ toolchain \in Toolchains
    /\ input_path = SourcePath
    /\ output_path = ArtifactPath(toolchain.msvc)
    /\ command = <<>>
    /\ language = "C"
    /\ fs = {input_path, output_path}
    /\ created = {input_path, output_path}
    /\ deletions = <<>>
    /\ spawned = <<>>
    /\ wrapper = NoWrapper
    /\ threads = NoThreads

NextFlags == StartCommand \/ AddCompilerFlags \/ AddOutputFile

SpecFlags == InitFlags /\ [][NextFlags]_vars

----------------------------------------------------------------------------
(* Claims about the flag resolver                                          *)

\* the maximal runs of non-whitespace characters of s, as (first, last)
WordSpans(s) ==
    {sp \in (1..Len(s)) \X (1..Len(s)) :
        /\ sp[1] <= sp[2]
        /\ \A k \in sp[1]..sp[2] : ~IsAsciiSpace(s[k])
        /\ sp[1] = 1 \/ IsAsciiSpace(s[sp[1] - 1])
        /\ sp[2] = Len(s) \/ IsAsciiSpace(s[sp[2] + 1])}

\* the words of s from left to right
Words(s) ==
    [k \in 1..Cardinality(WordSpans(s)) |->
        LET sp == CHOOSE sp \in WordSpans(s) :
                     Cardinality({t \in WordSpans(s) : t[1] < sp[1]}) = k - 1
        IN  SubSeq(s, sp[1], sp[2])]

\* the command as run built it before it added the flags
CommandBefore ==
    IF toolchain.msvc THEN CompilerArgs ELSE <<input_path>> \o CompilerArgs

\* the arguments the flags step added
FlagArguments == SubSeq(command, Len(CommandBefore) + 1, Len(command))

\* the value of a flag name in the merged mapping, empty when absent
MappedValue(name) ==
    IF name \in DOMAIN collected.variables
    THEN collected.variables[name] ELSE <<>>

\* the value the claim C5 describes: the merged mapping first, then the
\* process-wide environment, then nothing
ResolvedValue(name) ==
    IF name \in DOMAIN collected.variables THEN collected.variables[name]
    ELSE IF name \in DOMAIN env THEN env[name]
    ELSE <<>>

IsSuffix(w, arg) ==
    /\ Len(w) <= Len(arg)
    /\ SubSeq(arg, Len(arg) - Len(w) + 1, Len(arg)) = w

\* the flag arguments are the words of the CFLAGS value, then those of
\* the CPPFLAGS value, then those of the CXXFLAGS value, each as it is,
\* then one argument ending with each word of the LDFLAGS value, all in
\* word order
FlagArgumentsFrom(cflags, cppflags, cxxflags, ldflags) ==
    LET c == Words(cflags)
        cpp == Words(cppflags)
        cxx == Words(cxxflags)
        ld == Words(ldflags)
        n1 == Len(c)
        n2 == n1 + Len(cpp)
        n3 == n2 + Len(cxx)
    IN  /\ Len(FlagArguments) = n3 + Len(ld)
        /\ SubSeq(FlagArguments, 1, n1) = c
        /\ SubSeq(FlagArguments, n1 + 1, n2) = cpp
        /\ SubSeq(FlagArguments, n2 + 1, n3) = cxx
        /\ \A i \in 1..Len(ld) : IsSuffix(ld[i], FlagArguments[n3 + i])

\* C5: each of CFLAGS, CPPFLAGS, CXXFLAGS and LDFLAGS is looked up in the
\* merged variable mapping; when absent there, the same-named process-wide
\* environment variable is used; only when that is absent too does the name
\* contribute no arguments.
C5_FlagsFallBackToProcessEnvironment ==
    pc = "output_file" =>
        FlagArgumentsFrom(ResolvedValue(CFLAGS), ResolvedValue(CPPFLAGS),
                          ResolvedValue(CXXFLAGS), ResolvedValue(LDFLAGS))

\* C6: in the argument list, the arguments from CFLAGS come before those
\* from CPPFLAGS, which come before those from CXXFLAGS, which come before
\* the wrapped LDFLAGS arguments; within each variable the arguments keep
\* the order of the whitespace-split value.
C6_FlagOrder ==
    pc = "output_file" =>
        FlagArgumentsFrom(MappedValue(CFLAGS), MappedValue(CPPFLAGS),
                          MappedValue(CXXFLAGS), MappedValue(LDFLAGS))

\* C6 witness: CFLAGS is `-DA -DB`, LDFLAGS is `-lfoo`, the two other
\* variables are set, and the command ends with -DA, -DB, the preprocessor
\* flag, the C++ flag and the wrapped -lfoo, in this order.
C6_Witness ==
    /\ pc = "output_file"
    /\ MappedValue(CFLAGS) = <<"-","D","A",SP,"-","D","B">>
    /\ MappedValue(LDFLAGS) = <<"-","l","f","o","o">>
    /\ FlagArguments =
          << <<"-","D","A">>, <<"-","D","B">>, <<"-","I",".">>, <<"-","x">>,
             <<"-","W","l",",","-","l","f","o","o">> >>

\* the toolchains on which run uses the MSVC argument conventions
MsvcStyle(t) == t.msvc /\ ~t.clang

GnuLinkerPrefix == <<"-", "W", "l", ",">>

\* C7: every argument from LDFLAGS is wrapped in the forward-to-linker
\* syntax of the toolchain active for the invocation (the GCC/Clang form
\* -Wl,<arg> on a GCC/Clang-style toolchain, and not that form on an
\* MSVC-style one), while the CFLAGS, CPPFLAGS and CXXFLAGS arguments are
\* passed through unmodified.
C7_LinkerFlagsWrappedPerToolchain ==
    pc = "output_file" =>
        LET ld == Words(MappedValue(LDFLAGS))
            n3 == Len(FlagArguments) - Len(ld)
        IN  /\ SubSeq(FlagArguments, 1, n3) =
                  Words(MappedValue(CFLAGS)) \o Words(MappedValue(CPPFLAGS))
                     \o Words(MappedValue(CXXFLAGS))
            /\ \A i \in 1..Len(ld) :
                  /\ IsSuffix(ld[i], FlagArguments[n3 + i])
                  /\ (FlagArguments[n3 + i] = GnuLinkerPrefix \o ld[i])
                        <=> ~MsvcStyle(toolchain)

----------------------------------------------------------------------------
(* Inputs of the reconstructor: token streams written chunk by chunk       *)

MaxChunks == 5

HashToken == Punct(HASH, "Alone")
LessToken == Punct("<", "Alone")
GreaterToken == Punct(">", "Alone")
SemiToken == Punct(SEMI, "Alone")
HeaderTokens == <<Ident(<<"a">>), Punct(".", "Alone"), Ident(<<"h">>)>>
StringToken == Literal(<<QUOTE, "s", SEMI, QUOTE>>)

RecChunks ==
    { <<HashToken, Ident(INCLUDE_IDENT), LessToken>>,
      <<HashToken, Ident(INCLUDE_IDENT)>>,
      HeaderTokens,
      <<GreaterToken>>,
      <<SemiToken>>,
      <<StringToken>>,
      <<Group("Brace", <<HashToken, Ident(INCLUDE_IDENT), StringToken,
                         Ident(<<"a">>), Punct("+", "Joint"), SemiToken>>)>> }

NoFlagsState ==
    /\ srclines = <<>>
    /\ collected = NoResult
    /\ toolchain = NoToolchain
    /\ input_path = NoPath
    /\ output_path = NoPath
    /\ command = <<>>
    /\ NoEffects

InitRec ==
    /\ pc = "macro"
    /\ \E cs \in SeqsUpTo(RecChunks, MaxChunks) : tokens = Flatten(cs)
    /\ rec = NotExpanded
    /\ program = <<>>
    /\ env = EmptyMap
    /\ NoFlagsState

NextRec == Expand

SpecRec == InitRec /\ [][NextRec]_vars

----------------------------------------------------------------------------
(* Claims about the reconstructor                                          *)

IsPunct(t, ch) == t.k = "Punct" /\ t.ch = ch

\* ts[i] is `#` and ts[i + 1] the identifier include
IncludeAt(ts, i) ==
    /\ i + 1 <= Len(ts)
    /\ IsPunct(ts[i], HASH)
    /\ ts[i + 1] = Ident(INCLUDE_IDENT)

\* the position of the `>` closing an `#include <` that starts at i, when
\* only punctuation and identifiers stand before it; 0 when there is none
ClosingAt(ts, i) ==
    LET closers == {j \in (i + 3)..Len(ts) :
                       /\ IsPunct(ts[j], ">")
                       /\ \A k \in (i + 3)..(j - 1) :
                             /\ ts[k].k \in {"Punct", "Ident"}
                             /\ ~IsPunct(ts[k], ">")}
    IN  IF /\ IncludeAt(ts, i) /\ i + 2 <= Len(ts) /\ IsPunct(ts[i + 2], "<")
           /\ closers # {}
        THEN CHOOSE j \in closers : TRUE
        ELSE 0

\* an `#include "X"` starts at i
QuotedAt(ts, i) ==
    IncludeAt(ts, i) /\ i + 2 <= Len(ts) /\ ts[i + 2].k = "Literal"

\* the well-formed includes of one token stream, as (first, last) token
\* positions, from position i on; an include starts where a `#` stands
\* outside the includes before it
RECURSIVE IncludeSpans(_, _)
IncludeSpans(ts, i) ==
    IF i > Len(ts) THEN {}
    ELSE IF ClosingAt(ts, i) # 0
    THEN {<<i, ClosingAt(ts, i)>>} \cup IncludeSpans(ts, ClosingAt(ts, i) + 1)
    ELSE IF QuotedAt(ts, i)
    THEN {<<i, i + 2>>} \cup IncludeSpans(ts, i + 3)
    ELSE IncludeSpans(ts, i + 1)

\* a token stream and the streams of its groups, nested ones included
RECURSIVE AllStreams(_)
AllStreams(ts) ==
    {ts} \cup UNION {AllStreams(ts[i].stream) :
                        i \in {i \in 1..Len(ts) : ts[i].k = "Group"}}

TokenText(t) == IF t.k = "Punct" THEN <<t.ch>> ELSE t.s

\* the line the claim C9 expects for the include at span sp of ts
IncludeLine(ts, sp) ==
    <<NL, HASH>> \o INCLUDE_IDENT \o <<SP>>
       \o (IF sp[2] = sp[1] + 2 /\ ts[sp[2]].k = "Literal"
           THEN ts[sp[2]].s
           ELSE <<"<">>
                \o Flatten([k \in 1..(sp[2] - sp[1] - 3) |->
                               TokenText(ts[sp[1] + 2 + k])])
                \o <<">">>)
       \o <<NL>>

Contains(text, part) ==
    \E p \in 0..(Len(text) - Len(part)) :
        SubSeq(text, p + 1, p + Len(part)) = part

\* C9: for every well-formed #include <X> (X a run of punctuation and
\* identifier tokens) or #include "X" (one literal) of the token stream,
\* the reconstructed text holds exactly `#include <X>` or `#include "X"`
\* between two newlines, the characters of X in order, none lost and no
\* space inserted.
C9_IncludeOnItsOwnLine ==
    rec.st = "ok" =>
        \A ts \in AllStreams(tokens) :
            \A sp \in IncludeSpans(ts, 1) :
                Contains(rec.out, IncludeLine(ts, sp))

\* C9 witness: an #include <a.h> that follows another token was
\* reconstructed as the line `#include <a.h>`.
C9_Witness ==
    /\ rec.st = "ok"
    /\ \E sp \in IncludeSpans(tokens, 1) :
          /\ sp[1] > 1
          /\ SubSeq(tokens, sp[1] + 3, sp[2] - 1) = HeaderTokens
    /\ Contains(rec.out, <<NL, HASH>> \o INCLUDE_IDENT
                            \o <<SP, "<", "a", ".", "h", ">", NL>>)

RECURSIVE CountChar(_, _)
CountChar(text, ch) ==
    IF text = <<>> THEN 0
    ELSE (IF Head(text) = ch THEN 1 ELSE 0) + CountChar(Tail(text), ch)

\* the positions of the `;` of a text, and those not followed by a newline
SemiPositions(text) == {p \in 1..Len(text) : text[p] = SEMI}
BareSemiPositions(text) ==
    {p \in SemiPositions(text) : p = Len(text) \/ text[p + 1] # NL}

\* the number of `;` that stand between `<` and `>` of an include or
\* inside a literal (verbatim = TRUE), or that are punctuation tokens
\* elsewhere (verbatim = FALSE), groups included
RECURSIVE CountSemis(_, _, _)
CountSemis(ts, i, verbatim) ==
    IF i > Len(ts) THEN 0
    ELSE IF ClosingAt(ts, i) # 0
    THEN (IF verbatim
          THEN Cardinality({k \in (i + 3)..(ClosingAt(ts, i) - 1) :
                               IsPunct(ts[k], SEMI)})
          ELSE 0)
         + CountSemis(ts, ClosingAt(ts, i) + 1, verbatim)
    ELSE IF ts[i].k = "Literal"
    THEN (IF verbatim THEN CountChar(ts[i].s, SEMI) ELSE 0)
         + CountSemis(ts, i + 1, verbatim)
    ELSE IF ts[i].k = "Group"
    THEN CountSemis(ts[i].stream, 1, verbatim)
         + CountSemis(ts, i + 1, verbatim)
    ELSE (IF ~verbatim /\ IsPunct(ts[i], SEMI) THEN 1 ELSE 0)
         + CountSemis(ts, i + 1, verbatim)

\* C8 as stated: on every token stream on which reconstruct returns,
\* every `;` of the reconstructed text is immediately followed by a
\* newline, a `;` between `<` and `>` of an #include included.
C8_EverySemicolonBeforeNewline ==
    rec.st = "ok" => BareSemiPositions(rec.out) = {}

\* C8 amended: on every token stream on which reconstruct returns, every
\* `;` punctuation token outside the `<...>` of an #include, in a nested
\* group or as the last token too, is emitted immediately followed by a
\* newline; a `;` between `<` and `>` of an #include or inside a literal
\* is copied as it is, and these are the only `;` not followed by one.
C8_StatementSemicolonBeforeNewline ==
    rec.st = "ok" =>
        /\ Cardinality(SemiPositions(rec.out) \ BareSemiPositions(rec.out))
              = CountSemis(tokens, 1, FALSE)
        /\ Cardinality(BareSemiPositions(rec.out))
              = CountSemis(tokens, 1, TRUE)

\* C8 witness: the stream has a `;` inside an #include <...>, a `;` in a
\* nested group and a `;` as its last token, and the text ends with the
\* `;` and a newline.
C8_Witness ==
    /\ rec.st = "ok"
    /\ \E sp \in IncludeSpans(tokens, 1) :
          \E k \in (sp[1] + 3)..(sp[2] - 1) : tokens[k] = SemiToken
    /\ \E i \in 1..Len(tokens) :
          tokens[i].k = "Group" /\ CountSemis(tokens[i].stream, 1, FALSE) > 0
    /\ tokens[Len(tokens)] = SemiToken
    /\ SubSeq(rec.out, Len(rec.out) - 1, Len(rec.out)) = <<SEMI, NL>>

----------------------------------------------------------------------------
(* End to end: reconstruct, then collect_environment_variables             *)

MaxItems == 3

INLINE_C_RS_IDENT == <<"i","n","l","i","n","e","_","c","_","r","s">>

\* the tokens of `#inline_c_rs <name>: "<value>"`
DirectiveTokens(name, value) ==
    <<HashToken, Ident(INLINE_C_RS_IDENT), Ident(name), Punct(COLON, "Alone"),
      Literal(<<QUOTE>> \o value \o <<QUOTE>>)>>

E2EChunks ==
    { DirectiveTokens(NameA, <<"x">>),
      DirectiveTokens(NameB, <<"y", SP, "z">>),
      <<HashToken, Ident(INCLUDE_IDENT), LessToken>> \o HeaderTokens
          \o <<GreaterToken>>,
      <<Ident(<<"i","n","t">>)>>,
      <<SemiToken>>,
      <<Group("Brace", DirectiveTokens(NameA, <<"y">>))>> }

InitE2E ==
    /\ pc = "macro"
    /\ \E cs \in SeqsUpTo(E2EChunks, MaxItems) : tokens = Flatten(cs)
    /\ rec = NotExpanded
    /\ program = <<>>
    /\ env \in {e \in EnvSet : DOMAIN e \subseteq {MetaA}}
    /\ NoFlagsState

NextE2E == Expand \/ CollectEnvironmentVariables

SpecE2E == InitE2E /\ [][NextE2E]_vars

\* the positions of one stream at which a directive starts
DirectivePositions(ts) ==
    {i \in 1..Len(ts) :
        /\ i + 4 <= Len(ts)
        /\ ts[i] = HashToken
        /\ ts[i + 1] = Ident(INLINE_C_RS_IDENT)
        /\ ts[i + 2].k = "Ident"
        /\ ts[i + 3] = Punct(COLON, "Alone")
        /\ ts[i + 4].k = "Literal"}

\* the names the directives of a snippet give, nested groups included
DirectiveNames(snippet) ==
    UNION {{ts[i + 2].s : i \in DirectivePositions(ts)} :
              ts \in AllStreams(snippet)}

\* C4: end to end, a directive placed anywhere in the snippet, whatever
\* token follows it, is consumed into the variable mapping, and its text
\* never appears in the source handed to the compiler.
C4_DirectiveNeverReachesCompiler ==
    pc = "collected" =>
        /\ DirectiveNames(tokens) \subseteq DOMAIN collected.variables
        /\ ~Contains(collected.program, <<HASH>> \o INLINE_C_RS_IDENT)

----------------------------------------------------------------------------
(* The whole pipeline: the macro, run and the wrapper                      *)

NumberToken == Literal(<<"4", "2">>)

Snippets ==
    { \* #include <a.h> a;
      <<HashToken, Ident(INCLUDE_IDENT), LessToken>> \o HeaderTokens
          \o <<GreaterToken, Ident(<<"a">>), SemiToken>>,
      \* #inline_c_rs A: "x" #include "s;"
      DirectiveTokens(NameA, <<"x">>)
          \o <<HashToken, Ident(INCLUDE_IDENT), StringToken>>,
      \* #include ;
      <<HashToken, Ident(INCLUDE_IDENT), SemiToken>>,
      \* #include a
      <<HashToken, Ident(INCLUDE_IDENT), Ident(<<"a">>)>>,
      \* #include 42
      <<HashToken, Ident(INCLUDE_IDENT), NumberToken>>,
      \* #include
      <<Ident(<<"a">>), HashToken, Ident(INCLUDE_IDENT)>>,
      \* #include <a.h
      <<HashToken, Ident(INCLUDE_IDENT), LessToken>> \o HeaderTokens,
      \* #include <a.h "s;" >
      <<HashToken, Ident(INCLUDE_IDENT), LessToken>> \o HeaderTokens
          \o <<StringToken, GreaterToken>> }

Init ==
    /\ pc = "macro"
    /\ tokens \in Snippets
    /\ rec = NotExpanded
    /\ srclines = <<>>
    /\ program = <<>>
    /\ env \in {e \in EnvSet : DOMAIN e \subseteq {MetaA, NameA}}
    /\ collected = NoResult
    /\ toolchain \in Toolchains
    /\ language \in {"C", "Cxx"}
    /\ input_path = NoPath
    /\ output_path = NoPath
    /\ command = <<>>
    /\ fs = {}
    /\ created = {}
    /\ deletions = <<>>
    /\ spawned = <<>>
    /\ wrapper = NoWrapper
    /\ threads = NoThreads

Next ==
    \/ Expand
    \/ CollectEnvironmentVariables
    \/ CreateSource
    \/ CreateOutput
    \/ GetCompiler
    \/ StartCommand
    \/ AddCompilerFlags
    \/ AddOutputFile
    \/ Compile
    \/ Execute
    \/ AssertionPasses
    \/ AssertionPanics
    \/ Drop

Spec == Init /\ [][Next]_vars

----------------------------------------------------------------------------
(* Claims about the pipeline                                               *)

Occurrences(log, x) == Cardinality({i \in 1..Len(log) : log[i] = x})

\* the invocation is over: the wrapper was released, or run returned an
\* error
Finished == pc \in {"dropped", "drop_panic", "returned_err"}

\* C1: after any invocation, on every exit path (successful run,
\* compilation failure, failed assertion, or an I/O error returned by run
\* after the source file was persisted), every temporary file the
\* invocation created is absent from the filesystem and was deleted
\* exactly once.
C1_TemporaryFilesRemovedOnEveryPath ==
    Finished =>
        \A f \in created : f \notin fs /\ Occurrences(deletions, f) = 1

\* the first `#include` of the stream, 0 when there is none
FirstInclude(ts) ==
    IF \E i \in 1..Len(ts) : IncludeAt(ts, i)
    THEN CHOOSE i \in 1..Len(ts) :
            IncludeAt(ts, i) /\ \A j \in 1..(i - 1) : ~IncludeAt(ts, j)
    ELSE 0

IsStringLiteral(t) == t.k = "Literal" /\ Head(t.s) = QUOTE

\* the tokens from the `<` of the include at i up to the first `>`, or to
\* the end of the stream when no `>` follows
AngleRun(ts, i) ==
    LET closers == {j \in (i + 3)..Len(ts) : IsPunct(ts[j], ">")}
        last == IF closers = {} THEN Len(ts)
                ELSE (CHOOSE j \in closers : \A k \in closers : j <= k) - 1
    IN  (i + 3)..last

\* the token that breaks the form of the include at i: the token after
\* `include` when it is neither `<` nor a string literal, else the first
\* token before the `>` that is neither punctuation nor an identifier;
\* NoToken when the stream ends first
OffendingToken(ts, i) ==
    IF i + 2 > Len(ts) THEN NoToken
    ELSE IF ~IsPunct(ts[i + 2], "<") THEN ts[i + 2]
    ELSE LET bad == {k \in AngleRun(ts, i) :
                        ts[k].k \notin {"Punct", "Ident"}}
         IN  IF bad = {} THEN NoToken
             ELSE ts[CHOOSE k \in bad : \A m \in bad : k <= m]

\* the include at i is malformed, in the words of C10
Malformed(ts, i) ==
    \/ i + 2 > Len(ts)
    \/ ~IsPunct(ts[i + 2], "<") /\ ~IsStringLiteral(ts[i + 2])
    \/ /\ IsPunct(ts[i + 2], "<")
       /\ \/ \E k \in AngleRun(ts, i) : ts[k].k \notin {"Punct", "Ident"}
          \/ ~\E j \in (i + 3)..Len(ts) : IsPunct(ts[j], ">")

\* C10: when the token after `#include` is neither `<` nor a string
\* literal, or the stream ends or yields a token that is neither
\* punctuation nor an identifier before the closing `>`, reconstruct ends
\* in a fatal error whose message names the offending token (not the `#`),
\* no temporary file is created and no compiler process is spawned.
C10_MalformedIncludeIsFatal ==
    LET i == FirstInclude(tokens)
    IN  (pc # "macro" /\ i # 0 /\ Malformed(tokens, i)) =>
            /\ rec.st = "panic"
            /\ rec.named = OffendingToken(tokens, i)
            /\ pc = "macro_panic"
            /\ created = {}
            /\ spawned = <<>>

\* the child processes of the log that ran the artifact, and the compiler
ArtifactRuns == {i \in 1..Len(spawned) : spawned[i].program = output_path}

CompilerRuns == {i \in 1..Len(spawned) : spawned[i].program = CompilerPath}

\* C11: if the compiler process exits non-zero, run returns its result
\* at once (the wrapper of the compiler command, no other process spawned)
\* and the artifact is never executed, neither by run nor later through
\* the wrapper; every execution of the artifact comes after a compiler
\* process that exited with success.
C11_ArtifactRunsOnlyAfterCompilerSuccess ==
    /\ \A i \in ArtifactRuns :
          \E j \in CompilerRuns : j < i /\ status_success(spawned[j].status)
    /\ pc = "returned" => (Len(spawned) = 1 /\ CompilerRuns = {1})
    /\ (spawned # <<>> /\ ~status_success(spawned[1].status)) =>
          /\ ArtifactRuns = {}
          /\ wrapper.st = "ok"
          /\ wrapper.command.program = CompilerPath

\* a compiler failed, its wrapper was executed and released
C11_Witness ==
    /\ pc = "dropped"
    /\ Len(spawned) = 2
    /\ ~status_success(spawned[1].status)
    /\ wrapper.output.st = "some"

\* an artifact ran after its compiler succeeded
C11_WitnessSuccess ==
    /\ pc = "executed"
    /\ ArtifactRuns = {2}
    /\ status_success(spawned[1].status)

\* C13: on a result with no exit code (a signal ended the process),
\* interrupted() passes and code(n) fails for every n, n = 1 included; on a
\* result with the exit code c, interrupted() fails and code(n) passes
\* exactly when n = c; success() passes exactly on the exit code 0 and
\* failure() exactly otherwise; a missing code is printed as 1 by the
\* message of success() and by no other message.
C13_TerminalStatesDistinguishable ==
    (wrapper.st = "ok" /\ wrapper.output.st = "some") =>
        LET status == wrapper.output.status
        IN  \A k \in 1..Len(wrapper.checks) :
               LET c == wrapper.checks[k].call
                   r == wrapper.checks[k].result
               IN  /\ c.method = "interrupted" =>
                          (r.passed <=> status.code = NoCode)
                   /\ c.method = "code" =>
                          (r.passed <=> status.code = <<c.expected_code>>)
                   /\ c.method = "success" =>
                          (r.passed <=> status.code = <<0>>)
                   /\ c.method = "failure" =>
                          (r.passed <=> status.code # <<0>>)
                   /\ (status.code = NoCode /\ ~r.passed) =>
                          r.shown = IF c.method = "success"
                                    THEN <<1>> ELSE <<>>

\* a process ended by a signal: interrupted() passed, then code(1) panicked
C13_Witness ==
    /\ wrapper.st = "ok"
    /\ wrapper.output.st = "some"
    /\ wrapper.output.status.code = NoCode
    /\ Len(wrapper.checks) = 2
    /\ wrapper.checks[1].call.method = "interrupted"
    /\ wrapper.checks[1].result.passed
    /\ wrapper.checks[2].call = [method |-> "code", expected_code |-> 1]
    /\ ~wrapper.checks[2].result.passed

\* C14: the compiler process and the artifact's process both get the
\* merged variable mapping on top of the inherited environment: every name
\* of the mapping has the mapping's value in the child, and every
\* inherited variable the mapping does not name stays visible to the child
\* (with its inherited value, unless cc-rs set it for the tool), on the
\* MSVC and on the other branch.
C14_ChildrenGetMergedMappingOverInherited ==
    \A i \in 1..Len(spawned) :
        LET child == spawned[i].env
            mapping == collected.variables
        IN  /\ \A n \in DOMAIN mapping :
                  n \in DOMAIN child /\ child[n] = mapping[n]
            /\ \A n \in DOMAIN env \ DOMAIN mapping :
                  /\ n \in DOMAIN child
                  /\ n \notin DOMAIN ToolEnv => child[n] = env[n]

\* the compiler and the artifact both ran, with a variable the mapping
\* overrides (A is inherited as w and mapped to another value) and an
\* inherited variable the mapping does not name
C14_Witness ==
    /\ CompilerRuns = {1}
    /\ ArtifactRuns = {2}
    /\ NameA \in DOMAIN env
    /\ NameA \in DOMAIN collected.variables
    /\ collected.variables[NameA] # env[NameA]
    /\ MetaA \in DOMAIN env
    /\ MetaA \notin DOMAIN collected.variables

\* the positions of the command's arguments that start with a prefix
ArgumentsWith(prefix) ==
    {i \in 1..Len(command) : starts_with(command[i], prefix)}

\* C15: on every toolchain detected as MSVC-style the compiler command
\* carries the two output-file arguments -Fo<intermediate> (the output
\* path with the extension obj) and -Fe<final>; on every other toolchain it
\* carries a single -o <output> and the input source file is the first
\* argument of the command.
C15_OutputArgumentsPerToolchain ==
    pc = "built" =>
        IF toolchain.msvc
        THEN /\ \E i \in 1..Len(command) :
                   command[i] = <<"-", "F", "o">>
                                   \o set_extension(output_path, ".obj")
             /\ \E i \in 1..Len(command) :
                   command[i] = <<"-", "F", "e">> \o output_path
             /\ Cardinality(ArgumentsWith(<<"-", "F", "o">>)) = 1
             /\ Cardinality(ArgumentsWith(<<"-", "F", "e">>)) = 1
             /\ ~\E i \in 1..Len(command) : command[i] = <<"-", "o">>
        ELSE /\ Cardinality({i \in 1..Len(command) :
                                command[i] = <<"-", "o">>}) = 1
             /\ \E i \in 1..(Len(command) - 1) :
                   command[i] = <<"-", "o">> /\ command[i + 1] = output_path
             /\ ArgumentsWith(<<"-", "F">>) = {}
             /\ command[1] = input_path

\* C16: every path recorded in the cleanup list names a file that exists
\* when cleanup runs, on every toolchain (MSVC with cl, MSVC with a
\* clang-like compiler, non-MSVC) and after every compiler outcome, so
\* cleanup never ends in its fatal error about a missing file.
C16_RecordedPathsExistAtCleanup ==
    /\ pc \in {"returned", "executed", "unwinding"} =>
          \A k \in 1..Len(wrapper.files_to_remove) :
              wrapper.files_to_remove[k] \in fs
    /\ pc # "drop_panic"

----------------------------------------------------------------------------
(* Two invocations of run side by side, on one temporary directory         *)

Invocations == {1, 2}

NotStarted ==
    [pc |-> "start", input_path |-> NoPath, output_path |-> NoPath,
     files_to_remove |-> <<>>]

\* run, lines 28-39, in invocation i: tempfile draws a name no existing
\* file has and creates the file; an error returns from run
ThreadCreateSource(i) ==
    /\ threads[i].pc = "start"
    /\ \/ \E name \in TempNames :
             LET path == <<name, Suffix(language)>>
             IN  /\ path \notin fs
                 /\ fs' = fs \cup {path}
                 /\ threads' = [threads EXCEPT ![i].input_path = path,
                                               ![i].pc = "source"]
       \/ /\ threads' = [threads EXCEPT ![i].pc = "returned_err"]
          /\ fs' = fs

\* run, lines 40-47, in invocation i
ThreadCreateOutput(i) ==
    /\ threads[i].pc = "source"
    /\ \/ \E name \in TempNames :
             LET path == IF toolchain.msvc THEN <<name, ".exe">> ELSE <<name>>
             IN  /\ path \notin fs
                 /\ fs' = fs \cup {path}
                 /\ threads' = [threads EXCEPT ![i].output_path = path,
                                               ![i].pc = "output"]
       \/ /\ threads' = [threads EXCEPT ![i].pc = "returned_err"]
          /\ fs' = fs

\* run, lines 49-107, in invocation i: the paths are recorded, the
\* compiler runs and writes the files its output arguments name (all of
\* them when it succeeds), and the wrapper is returned
ThreadCompile(i) ==
    /\ threads[i].pc = "output"
    /\ LET t == threads[i]
           outputs == OutputsOf(command_add_output_file(<<>>, t.output_path,
                                    toolchain.msvc, toolchain.clang))
       IN  \E ok \in BOOLEAN, written \in SUBSET outputs :
              /\ ok => written = outputs
              /\ fs' = fs \cup written
              /\ threads' =
                    [threads EXCEPT
                        ![i].files_to_remove =
                            files_to_remove(t.input_path, t.output_path,
                                            toolchain.msvc),
                        ![i].pc = "returned"]

\* Drop for the wrapper of invocation i, one fs::remove_file at a time:
\* the other invocation runs between two removals
ThreadRemoveFile(i) ==
    /\ threads[i].pc = "returned"
    /\ LET files == threads[i].files_to_remove
       IN  IF Head(files) \in fs
           THEN /\ fs' = fs \ {Head(files)}
                /\ threads' =
                      [threads EXCEPT
                          ![i].files_to_remove = Tail(files),
                          ![i].pc = IF Tail(files) = <<>>
                                    THEN "dropped" ELSE "returned"]
           ELSE /\ fs' = fs
                /\ threads' = [threads EXCEPT ![i].files_to_remove = <<>>,
                                              ![i].pc = "drop_panic"]

ThreadStep(i) ==
    /\ \/ ThreadCreateSource(i)
       \/ ThreadCreateOutput(i)
       \/ ThreadCompile(i)
       \/ ThreadRemoveFile(i)
    /\ UNCHANGED <<pc, tokens, rec, srclines, program, env, collected,
                   toolchain, language, input_path, output_path, command,
                   created, deletions, spawned, wrapper>>

InitThreads ==
    /\ pc = "threads"
    /\ tokens = <<>>
    /\ rec = NotExpanded
    /\ program = <<>>
    /\ env = EmptyMap
    /\ srclines = <<>>
    /\ collected = NoResult
    /\ toolchain \in Toolchains
    /\ language \in {"C", "Cxx"}
    /\ input_path = NoPath
    /\ output_path = NoPath
    /\ command = <<>>
    /\ fs = {}
    /\ created = {}
    /\ deletions = <<>>
    /\ spawned = <<>>
    /\ wrapper = NoWrapper
    /\ threads = [i \in Invocations |-> NotStarted]

NextThreads == \E i \in Invocations : ThreadStep(i)

SpecThreads == InitThreads /\ [][NextThreads]_vars

\* the temporary paths an invocation holds: the files it persisted, then
\* the paths of its cleanup list that it has not removed yet
Held(t) ==
    IF t.pc \in {"source", "output"}
    THEN {t.input_path, t.output_path} \ {NoPath}
    ELSE IF t.pc = "returned" THEN {t.files_to_remove[k] :
                                        k \in 1..Len(t.files_to_remove)}
    ELSE {}

\* C12: for any two invocations running side by side, in any
\* interleaving, the temporary paths they created and recorded for cleanup
\* (source file, output artifact, the MSVC intermediate object derived from
\* the output path) are disjoint.
C12_TemporaryPathsDisjoint ==
    \A i \in Invocations, j \in Invocations :
        i # j => Held(threads[i]) \cap Held(threads[j]) = {}

============================================================================
